---- MODULE Spec2Model ----
(***************************************************************************)
(* Model of kakao_friends_count.py: the observation ledger (a worksheet    *)
(* addressed by row and column), the ledger cursor, the retrying fetcher,  *)
(* the collection loop of main, the base write, the delta and alert phase  *)
(* and the dispatch of the report.                                         *)
(*                                                                         *)
(* Cell texts are sequences of one-character strings, so that reading a    *)
(* number back from the sheet (safe_int) and writing one into it are real  *)
(* conversions.  Optional values are <<>> (None) or <<v>>.                 *)
(***************************************************************************)
EXTENDS Integers, Sequences, FiniteSets, TLC

VARIABLES
    sheet,              \* the worksheet: [row -> [col -> cell text]]
    pc,                 \* position of main: idle, collect, delta, report, done, failed;
                        \* cursor after a call of the cursor function on its own
    runs,               \* number of runs of main started so far
    name_map,           \* main: friend_col -> display name
    targets,            \* main: sequence of <<friend_col, kakao_id>>
    target_row,         \* main: row of this run
    prev_row,           \* main: Optional row of the previous observation
    prev_row_vals,      \* main: 1-based values of the previous row, [None] without one
    idx,                \* main: position of the collection loop in targets (1-based)
    current_counts,     \* main: friend_col -> cnt, as a set of <<col, cnt>>
    base_updates,       \* main: cells of the base write
    paced,              \* number of SLEEP_BETWEEN pauses taken in this run
    fetch_log,          \* calls of the fetcher made by this run and how each ended
    rpc,                \* position of get_friend_count_with_retry
    attempt,            \* get_friend_count_with_retry: attempt
    clock,              \* time.time() - start_time, in seconds
    elapsed,            \* get_friend_count_with_retry: elapsed (set after a miss)
    cnt,                \* get_friend_count_with_retry: Optional cnt of the last attempt
    deltas,             \* main: delta ranking (sorted after the delta phase)
    rates,              \* main: rate ranking (sorted after the delta phase)
    delta_updates,      \* main: cells of the delta write
    delta_change_hits,  \* main: alert list
    top_deltas,         \* main: deltas[:TOP_N]
    top_rates,          \* main: rates[:TOP_N]
    read_log,           \* ledger reads issued by this run, in order
    write_log,          \* ledger bulk writes attempted by this run, in order
    slack               \* dispatches attempted by this run: sequence of outcomes

vars == <<sheet, pc, runs, name_map, targets, target_row, prev_row, prev_row_vals,
          idx, current_counts, base_updates, paced, fetch_log, rpc, attempt,
          clock, elapsed,
          cnt, deltas, rates, delta_updates, delta_change_hits, top_deltas,
          top_rates, read_log, write_log, slack>>

mainVars == <<sheet, pc, runs, name_map, targets, target_row, prev_row,
              prev_row_vals, idx, current_counts, base_updates, paced, fetch_log,
              deltas, rates, delta_updates, delta_change_hits, top_deltas, top_rates,
              read_log, write_log, slack>>

retryVars == <<rpc, attempt, clock, elapsed, cnt>>

----------------------------------------------------------------------------
(* Settings (lines 20-45).                                                 *)

NAME_ROW == 1
HEADER_ROW == 2
DATA_START_ROW == 3
DATE_COL == 1
SLEEP_BETWEEN == 1
RETRY_DELAY == 2
MAX_RETRY_TIME == 120
TOP_N == 5
\* DELTA_CHANGE_THRESHOLD = 0.30, kept as the fraction 3/10
THRESHOLD_NUM == 3
THRESHOLD_DEN == 10
\* page.goto(..., timeout=30000): a fetch that returns takes at most 30 s
GOTO_TIMEOUT == 30

(* Bounds of the model.                                                    *)
MaxRuns == 2            \* runs of main in one behaviour
MaxInitRows == 1        \* observation rows already in the ledger at the start
MaxEntities == 6        \* tracked entities of a run whose lists are ranked
NumCols == 5            \* width of the worksheet grid
NumRows == DATA_START_ROW - 1 + MaxInitRows + MaxRuns

Rows == 1..NumRows
Cols == 1..NumCols

----------------------------------------------------------------------------
(* Optional values and texts.                                              *)

None == <<>>
Some(x) == <<x>>
IsNone(o) == o = <<>>
Val(o) == o[1]

DigitChars == <<"0", "1", "2", "3", "4", "5", "6", "7", "8", "9">>
IsDigit(ch) == \E i \in 1..10 : DigitChars[i] = ch
DigitVal(ch) == (CHOOSE i \in 1..10 : DigitChars[i] = ch) - 1

RECURSIVE NatText(_)
NatText(n) == IF n < 10 THEN <<DigitChars[n + 1]>>
              ELSE NatText(n \div 10) \o <<DigitChars[(n % 10) + 1]>>

\* str(n) of an int, which is also what the sheet shows for a number written
\* with USER_ENTERED into a cell of the default format
IntText(n) == IF n < 0 THEN <<"-">> \o NatText(0 - n) ELSE NatText(n)

RECURSIVE StripLeft(_)
StripLeft(s) == IF s # <<>> /\ Head(s) = " " THEN StripLeft(Tail(s)) ELSE s

RECURSIVE StripRight(_)
StripRight(s) == IF s # <<>> /\ s[Len(s)] = " "
                 THEN StripRight(SubSeq(s, 1, Len(s) - 1)) ELSE s

\* str.strip()
Strip(s) == StripRight(StripLeft(s))

\* str.replace(",", "")
RemoveCommas(s) == SelectSeq(s, LAMBDA ch : ch # ",")

RECURSIVE DigitsValue(_)
DigitsValue(s) == IF s = <<>> THEN 0
                  ELSE 10 * DigitsValue(SubSeq(s, 1, Len(s) - 1)) + DigitVal(s[Len(s)])

AllDigits(s) == \A i \in 1..Len(s) : IsDigit(s[i])

\* int(float(s)) for the decimal literals [sign] digits [. digits]; any other
\* text makes float() raise ValueError.  float() ignores surrounding blanks and
\* int() truncates toward zero.
IntOfFloat(s) ==
    LET t == Strip(s)
        neg == t # <<>> /\ Head(t) = "-"
        body == IF t # <<>> /\ Head(t) \in {"-", "+"} THEN Tail(t) ELSE t
        dots == {i \in 1..Len(body) : body[i] = "."}
        ip == IF dots = {} THEN body
              ELSE SubSeq(body, 1, (CHOOSE i \in dots : TRUE) - 1)
        fp == IF dots = {} THEN <<>>
              ELSE SubSeq(body, (CHOOSE i \in dots : TRUE) + 1, Len(body))
        ok == /\ Cardinality(dots) <= 1
              /\ AllDigits(ip) /\ AllDigits(fp)
              /\ Len(ip) + Len(fp) > 0
    IN  IF ~ok THEN None
        ELSE Some(IF neg THEN 0 - DigitsValue(ip) ELSE DigitsValue(ip))

\* safe_int, lines 64-73: cell_value is an Optional text
safe_int(cell_value) ==
    IF IsNone(cell_value) THEN None
    ELSE LET s == RemoveCommas(Strip(Val(cell_value)))
         IN  IF s = <<>> THEN None ELSE IntOfFloat(s)

----------------------------------------------------------------------------
(* The worksheet, as gspread shows it.                                     *)

EmptyText == <<>>

SetMax(S) == CHOOSE m \in S : \A x \in S : x <= m

\* ws.row_values(row): the texts of the row up to its last non-empty cell
ws_row_values(sh, row) ==
    LET filled == {c \in Cols : sh[row][c] # EmptyText}
        last == IF filled = {} THEN 0 ELSE SetMax(filled)
    IN  [c \in 1..last |-> sh[row][c]]

\* ws.col_values(col): the texts of the column up to its last non-empty cell
ws_col_values(sh, col) ==
    LET filled == {r \in Rows : sh[r][col] # EmptyText}
        last == IF filled = {} THEN 0 ELSE SetMax(filled)
    IN  [r \in 1..last |-> sh[r][col]]

\* gspread.Cell(row, col, value): value is a str or an int
StrValue(t) == [kind |-> "str", s |-> t, n |-> 0]
IntValue(k) == [kind |-> "int", s |-> EmptyText, n |-> k]
Cell(r, c, v) == [row |-> r, col |-> c, value |-> v]

\* the text a cell shows after value was entered into it
CellText(v) == IF v.kind = "int" THEN IntText(v.n) ELSE v.s

\* ws.update_cells(cells): one bulk write, the cells applied in list order
RECURSIVE ws_update_cells(_, _)
ws_update_cells(sh, cells) ==
    IF cells = <<>> THEN sh
    ELSE LET c == Head(cells)
             sh1 == [sh EXCEPT ![c.row][c.col] = CellText(c.value)]
         IN  ws_update_cells(sh1, Tail(cells))

\* row_values_1based, lines 76-82: index 0 of the Python list is seq[1] here
row_values_1based(sh, row) ==
    LET vals == ws_row_values(sh, row)
    IN  <<None>> \o [i \in 1..Len(vals) |-> Some(vals[i])]

\* get_cell_from_row, lines 85-88
get_cell_from_row(row_1based, col) ==
    IF col < Len(row_1based) THEN row_1based[col + 1] ELSE None

\* (x or ""), the Optional text as a text
OrEmpty(o) == IF IsNone(o) THEN EmptyText ELSE Val(o)

\* TargetsFrom stepping through every column from col on
RECURSIVE TargetsFromEveryColumn(_, _)
TargetsFromEveryColumn(header, col) ==
    IF col >= Len(header) THEN <<>>
    ELSE LET v == Strip(OrEmpty(header[col + 1]))
         IN  (IF v # EmptyText THEN << <<col, v>> >> ELSE <<>>)
             \o TargetsFromEveryColumn(header, col + 1)

\* get_targets_from_header, lines 182-195: range(2, len(header), 2)
RECURSIVE TargetsFrom(_, _)
TargetsFrom(header, col) ==
    IF col >= Len(header) THEN <<>>
    ELSE LET v == Strip(OrEmpty(header[col + 1]))
         IN  (IF v # EmptyText THEN << <<col, v>> >> ELSE <<>>)
             \o TargetsFrom(header, col + 2)

get_targets_from_header(sh) == TargetsFrom(row_values_1based(sh, HEADER_ROW), 2)

\* CursorOf taking the last filled row itself as the next row
CursorOfOverwriting(colA) ==
    LET last_filled_row == Len(colA)
    IN  IF last_filled_row < DATA_START_ROW
        THEN <<DATA_START_ROW, None>>
        ELSE <<last_filled_row, Some(last_filled_row)>>

\* CursorOf taking a ledger of one observation row for an empty one
CursorOfLateStart(colA) ==
    LET last_filled_row == Len(colA)
    IN  IF last_filled_row <= DATA_START_ROW
        THEN <<DATA_START_ROW, None>>
        ELSE <<last_filled_row + 1, Some(last_filled_row)>>

\* the number of leading non-empty entries of colA from index from on
RECURSIVE FilledRun(_, _)
FilledRun(colA, from) ==
    IF from > Len(colA) \/ colA[from] = <<>> THEN 0
    ELSE 1 + FilledRun(colA, from + 1)

\* CursorOf counting the contiguous filled entries from the first data row
CursorOfFirstGap(colA) ==
    LET L == FilledRun(colA, DATA_START_ROW)
    IN  IF L = 0 THEN <<DATA_START_ROW, None>>
        ELSE <<DATA_START_ROW + L, Some(DATA_START_ROW + L - 1)>>

\* find_next_empty_row_and_prev_row, lines 198-222, on the column it read:
\* <<target_row, Optional prev_row>>
CursorOf(colA) ==
    LET last_filled_row == Len(colA)
    IN  IF last_filled_row < DATA_START_ROW
        THEN <<DATA_START_ROW, None>>
        ELSE <<last_filled_row + 1,
               IF last_filled_row >= DATA_START_ROW THEN Some(last_filled_row)
               ELSE None>>

find_next_empty_row_and_prev_row(sh) == CursorOf(ws_col_values(sh, DATE_COL))

Abs(x) == IF x < 0 THEN 0 - x ELSE x

\* delta_change_ratio, lines 91-100: the ratio as an exact fraction
\* [inf, num, den]; float("inf") is inf = TRUE
delta_change_ratio(prev_delta, today_delta) ==
    IF prev_delta = 0
    THEN IF today_delta # 0 THEN [inf |-> TRUE, num |-> 0, den |-> 1]
         ELSE [inf |-> FALSE, num |-> 0, den |-> 1]
    ELSE [inf |-> FALSE, num |-> Abs(today_delta - prev_delta), den |-> Abs(prev_delta)]

\* MeetsThreshold with a strict comparison
MeetsThresholdStrict(ratio) ==
    ratio.inf \/ ratio.num * THRESHOLD_DEN > THRESHOLD_NUM * ratio.den

\* ratio >= DELTA_CHANGE_THRESHOLD, line 316
MeetsThreshold(ratio) ==
    ratio.inf \/ ratio.num * THRESHOLD_DEN >= THRESHOLD_NUM * ratio.den

----------------------------------------------------------------------------
(* The ledgers a behaviour starts from.                                    *)

\* strftime(DATE_FORMAT) of the day of run number k (k < 10)
DateText(k) == <<"2", "0", "2", "6", "-", "1", "1", "-", "0">> \o NatText(k)

\* texts a person may have typed into A1 and A2
TopTexts == {EmptyText, <<"D">>}

\* row 1 from column 2 on: one display name, at column 2
InitNames == <<(<<"A">>), EmptyText, EmptyText, EmptyText>>

\* row 2 from column 2 on: two keys; a blank key at column 2 and a key at an
\* odd column; one key; no key at all; a blank key at column 2 and a key at
\* an odd column only
InitHeaders ==
    { <<(<<"a">>), EmptyText, (<<"b">>), EmptyText>>,
      <<(<<" ">>), (<<"z">>), (<<"b">>), EmptyText>>,
      <<(<<"a">>), EmptyText, EmptyText, EmptyText>>,
      <<EmptyText, EmptyText, EmptyText, EmptyText>>,
      <<(<<" ">>), (<<"z">>), EmptyText, EmptyText>> }

\* an observation row from column 2 on: value, delta, value, delta
InitDataRows ==
    { <<(<<"0">>), (<<"1", "0">>), (<<"1", "2">>), (<<"0">>)>>,
      <<(<<"x">>), EmptyText, (<<"1", ",", "0">>), (<<"-", "3", ".", "5">>)>>,
      <<EmptyText, EmptyText, (<<"1", "3">>), EmptyText>> }

FullDataRow == <<(<<"1", "2">>), (<<"1">>), (<<"1", "2">>), (<<"1">>)>>

\* the cell of a row given from column 2 on (columns past it are empty)
FromCol2(row, c) == IF c - 1 \in 1..Len(row) THEN row[c - 1] ELSE EmptyText

\* the worksheet with A1 = a1, A2 = a2, header h and n observation rows, the
\* last of them d
InitSheet(a1, a2, h, n, d) ==
    [r \in Rows |-> [c \in Cols |->
        IF r = NAME_ROW THEN (IF c = DATE_COL THEN a1 ELSE FromCol2(InitNames, c))
        ELSE IF r = HEADER_ROW THEN (IF c = DATE_COL THEN a2 ELSE FromCol2(h, c))
        ELSE IF r - DATA_START_ROW + 1 > n THEN EmptyText
        ELSE IF c = DATE_COL THEN DateText(0)
        ELSE IF r - DATA_START_ROW + 1 = n THEN FromCol2(d, c)
        ELSE FromCol2(FullDataRow, c)]]

NoRetry ==
    /\ rpc = "idle" /\ attempt = 0 /\ clock = 0 /\ elapsed = None /\ cnt = None

NoRun ==
    /\ pc = "idle" /\ runs = 0
    /\ name_map = <<>> /\ targets = <<>> /\ target_row = 0 /\ prev_row = None
    /\ prev_row_vals = <<None>> /\ idx = 0 /\ current_counts = <<>>
    /\ base_updates = <<>> /\ paced = 0 /\ fetch_log = <<>>
    /\ deltas = <<>> /\ rates = <<>> /\ delta_updates = <<>>
    /\ delta_change_hits = <<>> /\ top_deltas = <<>> /\ top_rates = <<>>
    /\ read_log = <<>> /\ write_log = <<>> /\ slack = <<>>

Init ==
    /\ \E a1 \in TopTexts, a2 \in TopTexts, h \in InitHeaders,
          n \in 0..MaxInitRows, d \in InitDataRows :
            \* A1 and A2 vary on the ledgers with at most one tracked entity
            /\ Len(TargetsFrom(<<None, None>> \o [i \in 1..Len(h) |-> Some(h[i])], 2)) > 1
                  => a1 = <<"D">> /\ a2 = EmptyText
            /\ sheet = InitSheet(a1, a2, h, n, d)
    /\ NoRun
    /\ NoRetry

----------------------------------------------------------------------------
(* get_friend_count_with_retry, lines 152-168.                             *)

\* the counts a page may show
FetchCounts == {12, 13}

\* seconds one get_friend_count_playwright call may take: in a run of main,
\* and when the fetcher is exercised alone
RunDurations == {GOTO_TIMEOUT}
FetcherDurations == {0, 1, GOTO_TIMEOUT}

RetryEnded == {"Succeeded", "TimedOut", "Raised"}

\* lines 153-154: start_time = time.time(); attempt = 0
StartRetry ==
    /\ rpc' = "Fetching"
    /\ attempt' = 0
    /\ clock' = 0
    /\ elapsed' = None
    /\ cnt' = None

\* the call is over and its locals are gone
EndRetry ==
    /\ rpc' = "idle"
    /\ attempt' = 0
    /\ clock' = 0
    /\ elapsed' = None
    /\ cnt' = None

\* line 159: cnt is not None
Found(c) == ~IsNone(c)

\* CeilingReached with a strict comparison
CeilingPassed(e) == e > MAX_RETRY_TIME

\* line 165: elapsed >= MAX_RETRY_TIME
CeilingReached(e) == e >= MAX_RETRY_TIME

\* one iteration of the while loop, lines 157-168: the fetch takes d seconds
\* and yields a count, yields nothing, or raises (page.goto, line 147)
RetryAttempt(durations) ==
    /\ rpc = "Fetching"
    /\ attempt' = attempt + 1
    /\ \E d \in durations :
        \/ \E c \in {None} \cup {Some(v) : v \in FetchCounts} :
            /\ cnt' = c
            /\ IF Found(c)
               THEN /\ rpc' = "Succeeded"
                    /\ clock' = clock + d
                    /\ elapsed' = elapsed
               ELSE /\ elapsed' = Some(clock + d)
                    /\ IF CeilingReached(clock + d)
                       THEN /\ rpc' = "TimedOut"
                            /\ clock' = clock + d
                       ELSE /\ rpc' = "Fetching"
                            /\ clock' = clock + d + RETRY_DELAY
        \/ /\ rpc' = "Raised"
           /\ clock' = clock + d
           /\ UNCHANGED <<cnt, elapsed>>

----------------------------------------------------------------------------
(* main, lines 228-384.                                                    *)

RowRead(r) == [op |-> "row_values", arg |-> r]
ColRead(c) == [op |-> "col_values", arg |-> c]

\* lines 232 and 187: the name row and the header row, one read each
HeaderReads == <<RowRead(NAME_ROW), RowRead(HEADER_ROW)>>

\* RunReads reading the previous row once for every tracked entity
RunReadsPerEntity(cur) ==
    HeaderReads \o <<ColRead(DATE_COL)>>
    \o (IF IsNone(cur[2]) THEN <<>>
        ELSE [i \in 1..Len(get_targets_from_header(sheet)) |-> RowRead(Val(cur[2]))])

\* lines 232-253: the reads of a run that has a target, cur being its cursor
RunReads(cur) ==
    HeaderReads \o <<ColRead(DATE_COL)>>
    \o (IF IsNone(cur[2]) THEN <<>> ELSE <<RowRead(Val(cur[2]))>>)

\* lines 246-250
NameOf(name_row, friend_col) ==
    LET nm == Strip(OrEmpty(get_cell_from_row(name_row, friend_col)))
    IN  IF nm # EmptyText THEN nm
        ELSE <<"(", "c", "o", "l", " ">> \o IntText(friend_col) \o <<")">>

\* lines 229-257: the reads, the cursor and the locals of a run; without a
\* target the run raises RuntimeError (line 236)
MainStart ==
    /\ pc \in {"idle", "done", "failed"}
    /\ runs < MaxRuns
    /\ runs' = runs + 1
    /\ LET name_row == row_values_1based(sheet, NAME_ROW)
           tg == get_targets_from_header(sheet)
           cur == find_next_empty_row_and_prev_row(sheet)
           today_str == DateText(runs + 1)
       IN  /\ targets' = tg
           /\ IF tg = <<>>
              THEN /\ pc' = "failed"
                   /\ read_log' = HeaderReads
                   /\ target_row' = 0
                   /\ prev_row' = None
                   /\ name_map' = <<>>
                   /\ prev_row_vals' = <<None>>
                   /\ base_updates' = <<>>
                   /\ idx' = 0
              ELSE /\ pc' = "collect"
                   /\ target_row' = cur[1]
                   /\ prev_row' = cur[2]
                   /\ name_map' = [c \in {tg[i][1] : i \in 1..Len(tg)} |->
                                      NameOf(name_row, c)]
                   /\ prev_row_vals' = IF IsNone(cur[2]) THEN <<None>>
                                       ELSE row_values_1based(sheet, Val(cur[2]))
                   /\ read_log' = RunReads(cur)
                   /\ base_updates' = <<Cell(cur[1], DATE_COL, StrValue(today_str))>>
                   /\ idx' = 1
    /\ current_counts' = <<>>
    /\ paced' = 0
    /\ fetch_log' = <<>>
    /\ deltas' = <<>> /\ rates' = <<>> /\ delta_updates' = <<>>
    /\ delta_change_hits' = <<>> /\ top_deltas' = <<>> /\ top_rates' = <<>>
    /\ write_log' = <<>> /\ slack' = <<>>
    /\ UNCHANGED <<sheet, retryVars>>

\* line 265: the call of get_friend_count_with_retry for targets[idx]
CallRetry ==
    /\ pc = "collect" /\ rpc = "idle"
    /\ idx <= Len(targets)
    /\ StartRetry
    /\ UNCHANGED mainVars

\* the attempts of that call
FetchAttempt ==
    /\ pc = "collect"
    /\ RetryAttempt(RunDurations)
    /\ UNCHANGED mainVars

\* Collected without the cell of the base write
CollectedNoCell(friend_col) ==
    /\ current_counts' = (friend_col :> Val(cnt)) @@ current_counts
    /\ paced' = paced + 1
    /\ UNCHANGED base_updates

\* Skipped leaving an entry for the entity whose fetch failed
SkippedAsZero(friend_col) ==
    /\ current_counts' = (friend_col :> 0) @@ current_counts
    /\ UNCHANGED <<base_updates, paced>>

\* lines 266-269, after the call returned cnt for friend_col
Collected(friend_col) ==
    /\ current_counts' = (friend_col :> Val(cnt)) @@ current_counts
    /\ base_updates' = Append(base_updates, Cell(target_row, friend_col, IntValue(Val(cnt))))
    /\ paced' = paced + 1

\* lines 270-271, after the call raised
Skipped(friend_col) ==
    UNCHANGED <<current_counts, base_updates, paced>>

\* lines 263-271: the rest of the loop body, then the next target
CollectResult ==
    /\ pc = "collect" /\ rpc \in RetryEnded
    /\ IF rpc = "Succeeded"
       THEN Collected(targets[idx][1])
       ELSE Skipped(targets[idx][1])
    /\ fetch_log' = Append(fetch_log,
                        [col |-> targets[idx][1], id |-> targets[idx][2],
                         ended |-> rpc, cnt |-> IF rpc = "Succeeded" THEN cnt ELSE None])
    /\ idx' = idx + 1
    /\ EndRetry
    /\ UNCHANGED <<sheet, pc, runs, name_map, targets, target_row, prev_row,
                   prev_row_vals, deltas, rates, delta_updates, delta_change_hits,
                   top_deltas, top_rates, read_log, write_log, slack>>

CollectionOver == pc = "collect" /\ rpc = "idle" /\ idx > Len(targets)

\* BaseWrite going on to the delta phase without a previous row
BaseWriteThenDelta ==
    /\ CollectionOver
    /\ sheet' = ws_update_cells(sheet, base_updates)
    /\ write_log' = Append(write_log,
                        [kind |-> "base", cells |-> base_updates, ok |-> TRUE])
    /\ pc' = "delta"
    /\ UNCHANGED <<runs, name_map, targets, target_row, prev_row, prev_row_vals,
                   idx, current_counts, base_updates, paced, fetch_log, deltas, rates,
                   delta_updates, delta_change_hits, top_deltas, top_rates,
                   read_log, slack, retryVars>>

\* lines 276-282: the base write, then the end of the run without a previous row
BaseWrite ==
    /\ CollectionOver
    /\ sheet' = ws_update_cells(sheet, base_updates)
    /\ write_log' = Append(write_log,
                        [kind |-> "base", cells |-> base_updates, ok |-> TRUE])
    /\ pc' = IF IsNone(prev_row) THEN "done" ELSE "delta"
    /\ UNCHANGED <<runs, name_map, targets, target_row, prev_row, prev_row_vals,
                   idx, current_counts, base_updates, paced, fetch_log, deltas, rates,
                   delta_updates, delta_change_hits, top_deltas, top_rates,
                   read_log, slack, retryVars>>

\* line 276 raising: the bulk write is one request, nothing of it is stored
BaseWriteFails ==
    /\ CollectionOver
    /\ write_log' = Append(write_log,
                        [kind |-> "base", cells |-> base_updates, ok |-> FALSE])
    /\ pc' = "failed"
    /\ UNCHANGED <<sheet, runs, name_map, targets, target_row, prev_row,
                   prev_row_vals, idx, current_counts, base_updates, paced, fetch_log,
                   deltas, rates, delta_updates, delta_change_hits, top_deltas,
                   top_rates, read_log, slack, retryVars>>

----------------------------------------------------------------------------
(* The delta and alert phase, lines 284-321.                               *)

\* DeltaOf with the operands exchanged
DeltaOfReversed(curr, prev_friend) == prev_friend - curr

\* line 301
DeltaOf(curr, prev_friend) == curr - prev_friend

\* HasRate letting a previous value of 0 through
HasRateOrZero(prev_friend) == prev_friend >= 0

\* line 305: prev_friend > 0
HasRate(prev_friend) == prev_friend > 0

\* DeltaCol of the layout with the delta left of its value
DeltaColLeft(friend_col) == friend_col - 1

\* line 309
DeltaCol(friend_col) == friend_col + 1

\* line 293: current_counts.get(friend_col)
CountOf(counts, friend_col) ==
    IF friend_col \in DOMAIN counts THEN Some(counts[friend_col]) ELSE None

\* PrevFriend reading a cell that is no number as 0
PrevFriendOrZero(row_vals, friend_col) ==
    LET v == safe_int(get_cell_from_row(row_vals, friend_col))
    IN  IF IsNone(v) THEN Some(0) ELSE v

\* line 297: the previous value of the entity, read from the previous row
PrevFriend(row_vals, friend_col) == safe_int(get_cell_from_row(row_vals, friend_col))

\* line 313: the previous delta of the entity, read from the previous row
PrevDelta(row_vals, friend_col) ==
    safe_int(get_cell_from_row(row_vals, DeltaCol(friend_col)))

\* a rate delta / prev_friend as an exact fraction
Rate(delta, prev_friend) == [num |-> delta, den |-> prev_friend]

EmptyLists == [deltas |-> <<>>, rates |-> <<>>, delta_updates |-> <<>>, hits |-> <<>>]

\* the body of the loop of lines 292-317 for one target, on the lists so far
DeltaStep(acc, friend_col, counts, row_vals, names, trow) ==
    LET curr == CountOf(counts, friend_col)
        prev_friend == PrevFriend(row_vals, friend_col)
    IN  IF IsNone(curr) \/ IsNone(prev_friend) THEN acc
        ELSE LET delta == DeltaOf(Val(curr), Val(prev_friend))
                 name == names[friend_col]
                 prev_delta == PrevDelta(row_vals, friend_col)
                 ratio == delta_change_ratio(Val(prev_delta), delta)
             IN  [deltas |-> Append(acc.deltas,
                        [delta |-> delta, name |-> name, friend_col |-> friend_col,
                         prev_friend |-> Val(prev_friend), curr |-> Val(curr)]),
                  rates |-> IF HasRate(Val(prev_friend))
                            THEN Append(acc.rates,
                                   [rate |-> Rate(delta, Val(prev_friend)), name |-> name,
                                    friend_col |-> friend_col,
                                    prev_friend |-> Val(prev_friend),
                                    curr |-> Val(curr), delta |-> delta])
                            ELSE acc.rates,
                  delta_updates |-> Append(acc.delta_updates,
                        Cell(trow, DeltaCol(friend_col), IntValue(delta))),
                  hits |-> IF ~IsNone(prev_delta) /\ MeetsThreshold(ratio)
                           THEN Append(acc.hits,
                                  [ratio |-> ratio, name |-> name,
                                   prev_delta |-> Val(prev_delta),
                                   today_delta |-> delta])
                           ELSE acc.hits]

\* the loop of lines 292-317 over the first k targets
RECURSIVE DeltaLoop(_, _, _, _, _, _)
DeltaLoop(tg, k, counts, row_vals, names, trow) ==
    IF k = 0 THEN EmptyLists
    ELSE DeltaStep(DeltaLoop(tg, k - 1, counts, row_vals, names, trow),
                   tg[k][1], counts, row_vals, names, trow)

\* DeltaLists with the delta cells put into the previous row
DeltaListsOnPrevRow == DeltaLoop(targets, Len(targets), current_counts, prev_row_vals,
                                 name_map, Val(prev_row))

DeltaLists == DeltaLoop(targets, Len(targets), current_counts, prev_row_vals,
                        name_map, target_row)

\* lines 285-321: the lists, then the delta write when there is a delta
DeltaPhase ==
    /\ pc = "delta"
    /\ deltas' = DeltaLists.deltas
    /\ rates' = DeltaLists.rates
    /\ delta_updates' = DeltaLists.delta_updates
    /\ delta_change_hits' = DeltaLists.hits
    /\ IF DeltaLists.delta_updates # <<>>
       THEN /\ sheet' = ws_update_cells(sheet, DeltaLists.delta_updates)
            /\ write_log' = Append(write_log,
                                [kind |-> "delta", cells |-> DeltaLists.delta_updates,
                                 ok |-> TRUE])
       ELSE UNCHANGED <<sheet, write_log>>
    /\ pc' = "report"
    /\ UNCHANGED <<runs, name_map, targets, target_row, prev_row, prev_row_vals,
                   idx, current_counts, base_updates, paced, fetch_log, top_deltas, top_rates,
                   read_log, slack, retryVars>>

\* DeltaWriteFails with the exception swallowed
DeltaWriteFailsGoesOn ==
    /\ pc = "delta"
    /\ DeltaLists.delta_updates # <<>>
    /\ deltas' = DeltaLists.deltas
    /\ rates' = DeltaLists.rates
    /\ delta_updates' = DeltaLists.delta_updates
    /\ delta_change_hits' = DeltaLists.hits
    /\ write_log' = Append(write_log,
                        [kind |-> "delta", cells |-> DeltaLists.delta_updates,
                         ok |-> FALSE])
    /\ pc' = "report"
    /\ UNCHANGED <<sheet, runs, name_map, targets, target_row, prev_row,
                   prev_row_vals, idx, current_counts, base_updates, paced, fetch_log,
                   top_deltas, top_rates, read_log, slack, retryVars>>

\* line 321 raising
DeltaWriteFails ==
    /\ pc = "delta"
    /\ DeltaLists.delta_updates # <<>>
    /\ deltas' = DeltaLists.deltas
    /\ rates' = DeltaLists.rates
    /\ delta_updates' = DeltaLists.delta_updates
    /\ delta_change_hits' = DeltaLists.hits
    /\ write_log' = Append(write_log,
                        [kind |-> "delta", cells |-> DeltaLists.delta_updates,
                         ok |-> FALSE])
    /\ pc' = "failed"
    /\ UNCHANGED <<sheet, runs, name_map, targets, target_row, prev_row,
                   prev_row_vals, idx, current_counts, base_updates, paced, fetch_log,
                   top_deltas, top_rates, read_log, slack, retryVars>>

----------------------------------------------------------------------------
(* Ranking, report and dispatch, lines 323-384.                            *)

\* DeltaGeq of a sort without reverse=True
DeltaLeq(x, y) == x.delta <= y.delta

\* line 324: key x[0], the delta
DeltaGeq(x, y) == x.delta >= y.delta

\* line 325: key x[0], the rate (both denominators are positive)
RateGeq(x, y) == x.rate.num * y.rate.den >= y.rate.num * x.rate.den

\* lines 341-342: key 10**18 for inf, else the ratio; every ratio of the
\* model is below 10**18
HitGeq(x, y) ==
    IF x.ratio.inf THEN TRUE
    ELSE IF y.ratio.inf THEN FALSE
    ELSE x.ratio.num * y.ratio.den >= y.ratio.num * x.ratio.den

\* key(x) >= key(y) for the list named by which
KeyGeq(which, x, y) ==
    CASE which = "deltas" -> DeltaGeq(x, y)
      [] which = "rates" -> RateGeq(x, y)
      [] OTHER -> HitGeq(x, y)

\* list.sort(key=..., reverse=True): stable and descending
RECURSIVE InsertDesc(_, _, _)
InsertDesc(sorted, x, which) ==
    IF sorted = <<>> THEN <<x>>
    ELSE IF KeyGeq(which, Head(sorted), x)
         THEN <<Head(sorted)>> \o InsertDesc(Tail(sorted), x, which)
         ELSE <<x>> \o sorted

RECURSIVE SortDesc(_, _)
SortDesc(list, which) ==
    IF list = <<>> THEN <<>>
    ELSE InsertDesc(SortDesc(SubSeq(list, 1, Len(list) - 1), which),
                    list[Len(list)], which)

\* list[:n]
Take(list, n) == SubSeq(list, 1, IF Len(list) < n THEN Len(list) ELSE n)

\* send_to_slack, lines 106-124: no webhook configured, or the POST answers
\* 200, answers another status, or raises; nothing of it reaches the caller
SlackOutcomes == {"no_webhook", "ok", "not_200", "exception"}

\* Report with an exception of the POST reaching main
ReportRaising ==
    /\ pc = "report"
    /\ deltas' = SortDesc(deltas, "deltas")
    /\ rates' = SortDesc(rates, "rates")
    /\ top_deltas' = Take(SortDesc(deltas, "deltas"), TOP_N)
    /\ top_rates' = Take(SortDesc(rates, "rates"), TOP_N)
    /\ delta_change_hits' = SortDesc(delta_change_hits, "hits")
    /\ \E o \in SlackOutcomes :
          /\ slack' = Append(slack,
                     [outcome |-> o,
                      message |-> [top_deltas |-> Take(SortDesc(deltas, "deltas"), TOP_N),
                                   top_rates |-> Take(SortDesc(rates, "rates"), TOP_N),
                                   alerts |-> SortDesc(delta_change_hits, "hits")]])
          /\ pc' = IF o = "exception" THEN "failed" ELSE "done"
    /\ UNCHANGED <<sheet, runs, name_map, targets, target_row, prev_row,
                   prev_row_vals, idx, current_counts, base_updates, paced, fetch_log,
                   delta_updates, read_log, write_log, retryVars>>

\* lines 323-384: the rankings, the message and its dispatch
Report ==
    /\ pc = "report"
    /\ deltas' = SortDesc(deltas, "deltas")
    /\ rates' = SortDesc(rates, "rates")
    /\ top_deltas' = Take(SortDesc(deltas, "deltas"), TOP_N)
    /\ top_rates' = Take(SortDesc(rates, "rates"), TOP_N)
    /\ delta_change_hits' = SortDesc(delta_change_hits, "hits")
    /\ \E o \in SlackOutcomes :
          slack' = Append(slack,
                     [outcome |-> o,
                      message |-> [top_deltas |-> Take(SortDesc(deltas, "deltas"), TOP_N),
                                   top_rates |-> Take(SortDesc(rates, "rates"), TOP_N),
                                   alerts |-> SortDesc(delta_change_hits, "hits")]])
    /\ pc' = "done"
    /\ UNCHANGED <<sheet, runs, name_map, targets, target_row, prev_row,
                   prev_row_vals, idx, current_counts, base_updates, paced, fetch_log,
                   delta_updates, read_log, write_log, retryVars>>

----------------------------------------------------------------------------
Next ==
    \/ MainStart
    \/ CallRetry
    \/ FetchAttempt
    \/ CollectResult
    \/ BaseWrite
    \/ BaseWriteFails
    \/ DeltaPhase
    \/ DeltaWriteFails
    \/ Report

Spec == Init /\ [][Next]_vars

----------------------------------------------------------------------------
(* get_friend_count_with_retry called on its own, with fetches of 0, 1 and *)
(* GOTO_TIMEOUT seconds.                                                   *)

InitFetcher ==
    /\ sheet = InitSheet(EmptyText, EmptyText, CHOOSE h \in InitHeaders : TRUE,
                         0, FullDataRow)
    /\ NoRun
    /\ NoRetry

FetcherCall ==
    /\ pc = "idle" /\ rpc = "idle"
    /\ StartRetry
    /\ UNCHANGED mainVars

FetcherAttempt ==
    /\ pc = "idle"
    /\ RetryAttempt(FetcherDurations)
    /\ UNCHANGED mainVars

\* the call returned or raised; the caller may call again
FetcherReturn ==
    /\ pc = "idle" /\ rpc \in RetryEnded
    /\ EndRetry
    /\ UNCHANGED mainVars

NextFetcher == FetcherCall \/ FetcherAttempt \/ FetcherReturn

SpecFetcher == InitFetcher /\ [][NextFetcher]_vars

\* the attempts of a call whose fetches all return (page.goto does not raise)
FetcherAttemptReturns == FetcherAttempt /\ rpc' # "Raised"

NextFetcherReturns == FetcherCall \/ FetcherAttemptReturns \/ FetcherReturn

\* the loop of lines 156-168 does nothing but fetch and sleep: a call whose
\* fetches return and whose sleeps end goes on to its next attempt
SpecFetcherReturns ==
    InitFetcher /\ [][NextFetcherReturns]_vars /\ WF_vars(FetcherAttemptReturns)

----------------------------------------------------------------------------
(* find_next_empty_row_and_prev_row called on its own, on date columns     *)
(* with and without gaps.                                                  *)

\* what a cell of the date column may hold
DateCellTexts == {EmptyText, DateText(0), DateText(1)}

InitCursor ==
    /\ \E a1 \in TopTexts, a2 \in TopTexts,
          col \in [DATA_START_ROW..NumRows -> DateCellTexts] :
            sheet = [r \in Rows |-> [c \in Cols |->
                        IF c # DATE_COL THEN EmptyText
                        ELSE IF r = NAME_ROW THEN a1
                        ELSE IF r = HEADER_ROW THEN a2
                        ELSE col[r]]]
    /\ NoRun
    /\ NoRetry

\* lines 203-222: one read of the date column, then the cursor
CursorCall ==
    /\ pc = "idle"
    /\ pc' = "cursor"
    /\ read_log' = <<ColRead(DATE_COL)>>
    /\ target_row' = find_next_empty_row_and_prev_row(sheet)[1]
    /\ prev_row' = find_next_empty_row_and_prev_row(sheet)[2]
    /\ UNCHANGED <<sheet, runs, name_map, targets, prev_row_vals, idx,
                   current_counts, base_updates, paced, fetch_log, deltas, rates,
                   delta_updates, delta_change_hits, top_deltas, top_rates,
                   write_log, slack, retryVars>>

NextCursor == CursorCall

SpecCursor == InitCursor /\ [][NextCursor]_vars

----------------------------------------------------------------------------
(* The ranking of main, lines 323-384, after the delta phase of a run over *)
(* up to MaxEntities tracked entities, all of them fetched. The worksheet  *)
(* is neither read nor written by these lines; it is kept as in            *)
(* InitFetcher.                                                            *)

\* an entity of such a run: its count, and the texts of its value cell and
\* its delta cell in the previous row
EntityCases ==
    { [curr |-> 13, prev |-> <<"1", "2">>, prev_delta |-> <<"0">>],
      [curr |-> 12, prev |-> <<"1", "2">>, prev_delta |-> <<"1">>],
      [curr |-> 13, prev |-> <<"0">>, prev_delta |-> <<"1", "0">>],
      [curr |-> 12, prev |-> <<"1", "3">>, prev_delta |-> <<"x">>] }

\* row_values_1based of the previous row of the entities es
RankPrevRowVals(es) ==
    <<None, Some(DateText(0))>>
    \o [k \in 1..(2 * Len(es)) |->
           IF k % 2 = 1 THEN Some(es[(k + 1) \div 2].prev)
           ELSE Some(es[k \div 2].prev_delta)]

RankTargets(es) == [i \in 1..Len(es) |-> <<2 * i, <<"k">> \o NatText(i)>>]

RankCounts(es) == [c \in {2 * i : i \in 1..Len(es)} |-> es[c \div 2].curr]

\* the name map of a run whose name row is empty
RankNames(es) == [c \in {2 * i : i \in 1..Len(es)} |-> NameOf(<<None>>, c)]

\* the lists of the delta loop of that run, on row DATA_START_ROW + 1
RankLists(es) ==
    DeltaLoop(RankTargets(es), Len(es), RankCounts(es), RankPrevRowVals(es),
              RankNames(es), DATA_START_ROW + 1)

InitRank ==
    /\ \E n \in 0..MaxEntities : \E es \in [1..n -> EntityCases] :
       \E lists \in {RankLists(es)} :
          LET tg == RankTargets(es)
              names == RankNames(es)
              trow == DATA_START_ROW + 1
              base == <<Cell(trow, DATE_COL, StrValue(DateText(1)))>>
                      \o [i \in 1..n |-> Cell(trow, 2 * i, IntValue(es[i].curr))]
          IN  /\ n > 0
              /\ targets = tg
              /\ name_map = names
              /\ target_row = trow
              /\ prev_row = Some(DATA_START_ROW)
              /\ prev_row_vals = RankPrevRowVals(es)
              /\ idx = n + 1
              /\ current_counts = RankCounts(es)
              /\ base_updates = base
              /\ paced = n
              /\ fetch_log = [i \in 1..n |->
                                [col |-> tg[i][1], id |-> tg[i][2],
                                 ended |-> "Succeeded", cnt |-> Some(es[i].curr)]]
              /\ deltas = lists.deltas
              /\ rates = lists.rates
              /\ delta_updates = lists.delta_updates
              /\ delta_change_hits = lists.hits
              /\ read_log = RunReads(<<trow, Some(DATA_START_ROW)>>)
              /\ write_log = <<[kind |-> "base", cells |-> base, ok |-> TRUE],
                               [kind |-> "delta", cells |-> lists.delta_updates,
                                ok |-> TRUE]>>
    /\ sheet = InitSheet(EmptyText, EmptyText, CHOOSE h \in InitHeaders : TRUE,
                         0, FullDataRow)
    /\ pc = "report" /\ runs = 1
    /\ top_deltas = <<>> /\ top_rates = <<>> /\ slack = <<>>
    /\ NoRetry

NextRank == Report

SpecRank == InitRank /\ [][NextRank]_vars

----------------------------------------------------------------------------
(* The ledger and its cursor.                                              *)

DateFilled(r) == sheet[r][DATE_COL] # EmptyText

\* the observation rows of the ledger that hold a date
DatedRows == {r \in Rows : r >= DATA_START_ROW /\ DateFilled(r)}

DateContiguous ==
    \A r \in DatedRows : \A q \in DATA_START_ROW..r : DateFilled(q)

\* the last row holding a date, DATA_START_ROW - 1 for a ledger without one
LastDatedRow == IF DatedRows = {} THEN DATA_START_ROW - 1 ELSE SetMax(DatedRows)

BaseWritten == Len(write_log') = Len(write_log) + 1
               /\ write_log'[Len(write_log')].kind = "base"
               /\ write_log'[Len(write_log')].ok

\* C1: from a ledger whose date column is contiguous from row 3, the date
\* column stays without a gap whatever the fetches of the runs do; the base
\* write of a run puts its date into the row right after the last dated row,
\* and the run after a completed run takes that run's row as its previous row.
C1_DateColumnContiguous ==
    /\ []DateContiguous
    /\ [][BaseWritten =>
            /\ target_row = LastDatedRow + 1
            /\ sheet'[target_row][DATE_COL] # EmptyText
            /\ \A r \in Rows \ {target_row} : sheet'[r][DATE_COL] = sheet[r][DATE_COL]]_vars
    /\ [][pc = "done" /\ pc' = "collect" => prev_row' = Some(target_row)]_vars

\* the second run completed on the row after the first run's row, with every
\* fetch of it failed
C1_Witness ==
    /\ pc = "done" /\ runs >= 2
    /\ Len(fetch_log) = 2 /\ \A i \in 1..2 : fetch_log[i].ended # "Succeeded"
    /\ base_updates = <<Cell(target_row, DATE_COL, StrValue(DateText(runs)))>>
    /\ prev_row = Some(target_row - 1)
    /\ sheet[target_row - 1][DATE_COL] = DateText(runs - 1)
    /\ DateFilled(target_row)

\* C2: on a ledger with L dated rows, contiguous from row 3, and A1 and A2
\* filled or not, the cursor is (3, none) when L = 0 and (3 + L, 2 + L)
\* otherwise.
C2_CursorOnContiguousLedger ==
    LET L == Cardinality(DatedRows)
    IN  DateContiguous =>
          find_next_empty_row_and_prev_row(sheet) =
            IF L = 0 THEN <<DATA_START_ROW, None>>
            ELSE <<DATA_START_ROW + L, Some(DATA_START_ROW + L - 1)>>

\* a ledger of two dated rows under a filled A1 and an empty A2, read by a run
C2_Witness ==
    /\ Cardinality(DatedRows) = 2
    /\ sheet[NAME_ROW][DATE_COL] # EmptyText /\ sheet[HEADER_ROW][DATE_COL] = EmptyText
    /\ pc = "collect"
    /\ target_row = DATA_START_ROW + 2 /\ prev_row = Some(DATA_START_ROW + 1)

----------------------------------------------------------------------------
(* The retrying fetcher.                                                   *)

AttemptMade == attempt' = attempt + 1

Missed == ~Found(cnt') /\ ~IsNone(elapsed')

\* C3: a call of get_friend_count_with_retry ends in one of two ways only.
\* Every attempt either yields a value, which the call returns at once; or
\* yields nothing with elapsed >= MAX_RETRY_TIME, and the call raises the
\* timeout error; or yields nothing with elapsed < MAX_RETRY_TIME, and the
\* call waits RETRY_DELAY and attempts again.
C3_TwoOutcomes ==
    [][AttemptMade =>
        \/ Found(cnt') /\ rpc' = "Succeeded"
        \/ Missed /\ Val(elapsed') >= MAX_RETRY_TIME /\ rpc' = "TimedOut"
        \/ /\ Missed /\ Val(elapsed') < MAX_RETRY_TIME
           /\ rpc' = "Fetching" /\ clock' = Val(elapsed') + RETRY_DELAY]_vars

----------------------------------------------------------------------------
(* The collection loop and the base write.                                 *)

Fetched == 1..Len(fetch_log)
Succeeded == {i \in Fetched : fetch_log[i].ended = "Succeeded"}
Failed == Fetched \ Succeeded

\* the even columns of the header row that hold a key, in column order
HeaderCols == {c \in Cols : c % 2 = 0 /\ Strip(sheet[HEADER_ROW][c]) # EmptyText}

TargetCols == {targets[i][1] : i \in 1..Len(targets)}

\* the main loop is past the collection of this run
Collection_Done ==
    \/ pc \in {"delta", "report", "done"}
    \/ pc = "failed" /\ targets # <<>>

BaseCols == {base_updates[k].col : k \in 2..Len(base_updates)}

\* C4: an entity whose fetch ended with the timeout error or with another
\* exception is in neither current_counts nor the base write; the entities
\* of the header are fetched in column order, each of them whatever became of
\* the ones before it, and the base write follows the last of them.
C4_FailedFetchSkipsOneEntity ==
    /\ pc # "idle" /\ targets # <<>> => TargetCols = HeaderCols
    /\ \A i \in 1..Len(targets) : \A j \in 1..Len(targets) :
          i < j => targets[i][1] < targets[j][1]
    /\ Len(fetch_log) <= Len(targets)
    /\ \A i \in Fetched : fetch_log[i].col = targets[i][1]
    /\ \A i \in Failed :
          /\ fetch_log[i].col \notin DOMAIN current_counts
          /\ fetch_log[i].col \notin BaseCols
    /\ \A i \in Succeeded :
          /\ fetch_log[i].col \in DOMAIN current_counts
          /\ current_counts[fetch_log[i].col] = Val(fetch_log[i].cnt)
    /\ pc = "collect" /\ rpc = "idle" =>
          /\ idx = Len(fetch_log) + 1
          /\ IF idx <= Len(targets) THEN ENABLED CallRetry ELSE ENABLED BaseWrite
    /\ Collection_Done => Len(fetch_log) = Len(targets) /\ write_log # <<>>

\* the first fetch timed out, the second returned a count, the base write
\* followed
C4_Witness ==
    /\ pc = "done" /\ Len(fetch_log) = 2
    /\ fetch_log[1].ended = "TimedOut" /\ fetch_log[2].ended = "Succeeded"
    /\ DOMAIN current_counts = {fetch_log[2].col}
    /\ write_log[1].ok /\ Len(write_log[1].cells) = 2

BaseWrites == SelectSeq(write_log, LAMBDA w : w.kind = "base")

DateCell == Cell(target_row, DATE_COL, StrValue(DateText(runs)))

ValueCell(i) == Cell(target_row, fetch_log[i].col, IntValue(Val(fetch_log[i].cnt)))

\* C5: a run with a tracked entity issues one base write, after the last
\* fetch; its cells are the date cell of the target row and one value cell
\* per entity whose fetch succeeded, and no other.
C5_OneBaseWrite ==
    /\ pc \in {"idle", "collect"} \/ targets = <<>> => BaseWrites = <<>>
    /\ Collection_Done =>
          /\ Len(BaseWrites) = 1 /\ write_log[1].kind = "base"
          /\ Len(fetch_log) = Len(targets)
          /\ LET cells == write_log[1].cells
             IN  /\ cells[1] = DateCell
                 /\ Len(cells) = 1 + Cardinality(Succeeded)
                 /\ \A i \in Succeeded :
                       Cardinality({k \in 1..Len(cells) : cells[k] = ValueCell(i)}) = 1
                 /\ \A k \in 2..Len(cells) : \E i \in Succeeded : cells[k] = ValueCell(i)
                 /\ write_log[1].ok =>
                       /\ sheet[target_row][DATE_COL] = DateText(runs)
                       /\ \A i \in Succeeded :
                             sheet[target_row][fetch_log[i].col]
                                = IntText(Val(fetch_log[i].cnt))

\* both fetches failed and the base write held the date cell alone
C5_Witness ==
    /\ pc = "delta" /\ Len(targets) = 2 /\ Succeeded = {}
    /\ write_log = <<[kind |-> "base", cells |-> <<DateCell>>, ok |-> TRUE]>>

----------------------------------------------------------------------------
(* The delta and alert phase.                                              *)

\* the delta phase of this run is over, its write stored
AfterDelta == pc \in {"report", "done"} /\ ~IsNone(prev_row)

\* the number a cell of the ledger holds, None for a cell that holds none
CellNumber(r, c) == safe_int(Some(sheet[r][c]))

PrevValue(c) == CellNumber(Val(prev_row), c)

HasCurrent(c) == c \in DOMAIN current_counts

InDeltas(c) == \E k \in 1..Len(deltas) : deltas[k].friend_col = c
InRates(c) == \E k \in 1..Len(rates) : rates[k].friend_col = c
InHits(c) == \E k \in 1..Len(delta_change_hits) : delta_change_hits[k].name = name_map[c]
HasDeltaCell(c) == \E k \in 1..Len(delta_updates) : delta_updates[k].col = c + 1

\* C6: after a run with a previous row, an entity at column C with a fetched
\* value and a number in the previous row's cell C has current - previous in
\* cell C+1 of the target row, and a rate delta/previous if and only if
\* previous > 0; so the delta stored in a row is the difference of the values
\* of that row and the row before it, where both are present.
C6_DeltaIsDifference ==
    AfterDelta =>
      \A c \in TargetCols :
        /\ HasCurrent(c) /\ ~IsNone(PrevValue(c)) =>
              /\ CellNumber(target_row, c + 1)
                    = Some(current_counts[c] - Val(PrevValue(c)))
              /\ InRates(c) <=> Val(PrevValue(c)) > 0
              /\ \A k \in 1..Len(rates) : rates[k].friend_col = c =>
                    /\ rates[k].rate.num = current_counts[c] - Val(PrevValue(c))
                    /\ rates[k].rate.den = Val(PrevValue(c))
        /\ ~IsNone(CellNumber(target_row, c)) /\ ~IsNone(PrevValue(c)) =>
              CellNumber(target_row, c + 1)
                 = Some(Val(CellNumber(target_row, c)) - Val(PrevValue(c)))

\* the second run stored a negative delta under the first run's value
C6_Witness ==
    /\ pc = "done" /\ runs >= 2 /\ prev_row = Some(target_row - 1)
    /\ \E c \in TargetCols :
          /\ sheet[target_row - 1][c] = IntText(13)
          /\ sheet[target_row][c] = IntText(12)
          /\ sheet[target_row][c + 1] = IntText(0 - 1)
          /\ InRates(c)

\* the entity has no current value or no number in the previous row
Excluded(c) == ~HasCurrent(c) \/ IsNone(PrevValue(c))

\* C7: in the delta phase an entity without a current value, or whose cell
\* in the previous row is empty or no number, is in none of the delta
\* ranking, the rate ranking and the alert list and gets no delta cell; the
\* other entities are processed all the same, in this run and in every
\* later run in which the entity has both values.
C7_EntityWithoutBothValuesSkipped ==
    AfterDelta =>
      \A c \in TargetCols :
        /\ Excluded(c) =>
              /\ ~InDeltas(c) /\ ~InRates(c) /\ ~InHits(c)
              /\ ~HasDeltaCell(c)
              /\ sheet[target_row][c + 1] = EmptyText
        /\ ~Excluded(c) =>
              /\ Cardinality({k \in 1..Len(deltas) : deltas[k].friend_col = c}) = 1
              /\ HasDeltaCell(c)
              /\ sheet[target_row][c + 1] # EmptyText

\* the entity at column 2 was left out by the first run, whose previous row
\* held no number for it, and processed by the second run, next to the
\* entity at column 4, which the second run left out for its failed fetch
C7_Witness ==
    /\ pc = "done" /\ runs >= 2 /\ target_row = DATA_START_ROW + 2
    /\ sheet[DATA_START_ROW][2] = <<"x">>
    /\ sheet[DATA_START_ROW + 1][2] # EmptyText
    /\ sheet[DATA_START_ROW + 1][3] = EmptyText
    /\ InDeltas(2) /\ sheet[target_row][3] # EmptyText
    /\ 4 \in TargetCols /\ ~HasCurrent(4) /\ ~InDeltas(4)

PrevDeltaNumber(c) == CellNumber(Val(prev_row), c + 1)

\* the condition of the claim on D_prev and D_curr, with the threshold 0.30
Swing(dp, dc) ==
    \/ dp = 0 /\ dc # 0
    \/ dp # 0 /\ 10 * Abs(dc - dp) >= 3 * Abs(dp)

\* C8: an entity with a delta of this run is in the alert list if and only
\* if the previous row's delta cell holds a number D_prev and either
\* D_prev = 0 and D_curr # 0, or D_prev # 0 and |D_curr - D_prev| / |D_prev|
\* >= 0.30; D_prev = D_curr = 0 is not flagged, prev = 10, curr = 13 is and
\* prev = 10, curr = 12 is not.
C8_AlertIffSwing ==
    /\ delta_change_ratio(0, 0) = [inf |-> FALSE, num |-> 0, den |-> 1]
    /\ ~MeetsThreshold(delta_change_ratio(0, 0))
    /\ delta_change_ratio(0, 5).inf /\ MeetsThreshold(delta_change_ratio(0, 5))
    /\ MeetsThreshold(delta_change_ratio(10, 13))
    /\ ~MeetsThreshold(delta_change_ratio(10, 12))
    /\ AfterDelta =>
          /\ \A k \in 1..Len(deltas) :
                LET c == deltas[k].friend_col
                    dp == PrevDeltaNumber(c)
                IN  /\ InHits(c) <=> ~IsNone(dp) /\ Swing(Val(dp), deltas[k].delta)
                    /\ \A h \in 1..Len(delta_change_hits) :
                          delta_change_hits[h].name = name_map[c] =>
                             /\ delta_change_hits[h].prev_delta = Val(dp)
                             /\ delta_change_hits[h].today_delta = deltas[k].delta
                             /\ delta_change_hits[h].ratio.inf <=> Val(dp) = 0
          /\ \A h \in 1..Len(delta_change_hits) :
                \E k \in 1..Len(deltas) :
                   delta_change_hits[h].name = deltas[k].name

\* one entity flagged at a ratio of exactly 0.30 (previous delta 10, delta
\* 13) next to one not flagged with both deltas 0
C8_Witness ==
    /\ pc = "done"
    /\ \E h \in 1..Len(delta_change_hits) :
          /\ delta_change_hits[h].prev_delta = 10
          /\ delta_change_hits[h].today_delta = 13
    /\ \E k \in 1..Len(deltas) :
          /\ deltas[k].delta = 0
          /\ PrevDeltaNumber(deltas[k].friend_col) = Some(0)
          /\ ~InHits(deltas[k].friend_col)

\* C9: an entity with a current value and a previous value of 0 is a
\* candidate of the delta ranking and gets its delta cell, but is no
\* candidate of the rate ranking; the rate candidates are the delta
\* candidates whose previous value is > 0.
C9_RateNeedsPositivePrevious ==
    AfterDelta =>
      /\ {rates[k].friend_col : k \in 1..Len(rates)}
            = {deltas[k].friend_col : k \in {j \in 1..Len(deltas) : deltas[j].prev_friend > 0}}
      /\ \A c \in TargetCols :
            HasCurrent(c) /\ PrevValue(c) = Some(0) =>
               /\ InDeltas(c) /\ ~InRates(c)
               /\ \A k \in 1..Len(deltas) : deltas[k].friend_col = c =>
                     deltas[k].delta = current_counts[c] /\ deltas[k].prev_friend = 0
               /\ sheet[target_row][c + 1] = IntText(current_counts[c])

\* an entity with previous value 0 ranked by delta only, next to one ranked
\* by delta and by rate
C9_Witness ==
    /\ pc = "done" /\ AfterDelta
    /\ \E c \in TargetCols, d \in TargetCols :
          /\ HasCurrent(c) /\ PrevValue(c) = Some(0) /\ InDeltas(c) /\ ~InRates(c)
          /\ InDeltas(d) /\ InRates(d)

\* C10: every cell a run writes lies in its target row, whose date cell was
\* empty when the run started; no cell of another row ever changes, so the
\* delta cells of a row written earlier are never rewritten; a run writes
\* its row at most twice, the base write before the delta write.
C10_OnlyTargetRowWritten ==
    /\ [](\A w \in 1..Len(write_log) : \A k \in 1..Len(write_log[w].cells) :
             write_log[w].cells[k].row = target_row)
    /\ [](/\ Len(write_log) <= 2
          /\ Len(write_log) >= 1 => write_log[1].kind = "base"
          /\ Len(write_log) = 2 => write_log[1].ok /\ write_log[2].kind = "delta")
    /\ [][\A r \in Rows : sheet'[r] # sheet[r] =>
             /\ r = target_row
             /\ Len(write_log') = Len(write_log) + 1]_vars
    /\ [][pc # "collect" /\ pc' = "collect" =>
             /\ sheet[target_row'][DATE_COL] = EmptyText
             /\ \A r \in DatedRows : r < target_row']_vars

\* the second run wrote its row twice under a row that holds a delta cell
C10_Witness ==
    /\ pc = "done" /\ runs >= 2 /\ Len(write_log) = 2
    /\ write_log[1].ok /\ write_log[2].ok
    /\ prev_row = Some(target_row - 1)
    /\ \E c \in TargetCols : sheet[target_row - 1][c + 1] # EmptyText

----------------------------------------------------------------------------
(* Ledger round trips, abort and dispatch.                                 *)

HeaderRowReads ==
    {i \in 1..Len(read_log) :
        read_log[i].op = "row_values" /\ read_log[i].arg \in {NAME_ROW, HEADER_ROW}}

DeltaWrites == SelectSeq(write_log, LAMBDA w : w.kind = "delta")

\* C11 as stated: a run that has a tracked entity reads the header and name
\* rows in one bulk read, the date column in one and the previous row, when
\* there is one, in one: two reads, or three with a previous row.
C11_OneHeaderRead ==
    pc # "idle" /\ targets # <<>> =>
       /\ Cardinality(HeaderRowReads) = 1
       /\ Len(read_log) = IF IsNone(prev_row) THEN 2 ELSE 3

\* C11, amended: the ledger round trips of a run do not depend on the number
\* of tracked entities. A run reads the name row and the header row in one
\* bulk read each; with a tracked entity it then reads the date column once
\* and the previous row once, only when there is one; it attempts one bulk
\* write of the new values after the collection and at most one bulk write
\* of the deltas; no step of the collection or of the delta loop reads or
\* writes the ledger for a single entity.
C11_RoundTripsIndependentOfEntities ==
    /\ [](pc # "idle" /\ targets = <<>> =>
             /\ read_log = <<RowRead(1), RowRead(2)>>
             /\ write_log = <<>>)
    /\ [](pc # "idle" /\ targets # <<>> =>
             /\ read_log = <<RowRead(1), RowRead(2), ColRead(1)>>
                           \o (IF IsNone(prev_row) THEN <<>>
                               ELSE <<RowRead(Val(prev_row))>>)
             /\ Len(BaseWrites) = (IF Collection_Done THEN 1 ELSE 0)
             /\ Len(DeltaWrites) <= 1
             /\ Len(write_log) = Len(BaseWrites) + Len(DeltaWrites)
             /\ pc = "done" /\ ~IsNone(prev_row) =>
                   Len(DeltaWrites) = (IF delta_updates = <<>> THEN 0 ELSE 1))
    /\ [][/\ read_log' # read_log => runs' = runs + 1
          /\ Len(write_log') <= Len(write_log) + 1
          /\ pc = "collect" /\ pc' = "collect" =>
                write_log' = write_log /\ sheet' = sheet]_vars

\* two tracked entities over a previous row: four reads and two writes
C11_Witness ==
    /\ pc = "done" /\ Len(targets) = 2 /\ Len(fetch_log) = 2
    /\ Len(read_log) = 4 /\ Len(write_log) = 2
    /\ Len(delta_updates) = 2

\* C12: when row 2 holds no key at any even column >= 2, a run aborts at
\* once: no fetch is begun, no ledger write attempted, nothing dispatched,
\* and the ledger stays as it was.
C12_NoKeyAborts ==
    /\ [](HeaderCols = {} /\ pc # "idle" =>
             /\ pc = "failed" /\ targets = <<>>
             /\ fetch_log = <<>> /\ rpc = "idle" /\ attempt = 0
             /\ base_updates = <<>> /\ write_log = <<>> /\ slack = <<>>)
    /\ [][HeaderCols = {} =>
             /\ sheet' = sheet
             /\ rpc' = "idle"
             /\ runs' = runs + 1 => pc' = "failed"]_vars

\* the second run aborted on a ledger of one observation row whose header
\* holds a blank at column 2 and a key at the odd column 3
C12_Witness ==
    /\ pc = "failed" /\ runs = 2 /\ targets = <<>>
    /\ sheet[HEADER_ROW][2] = <<" ">> /\ sheet[HEADER_ROW][3] # EmptyText
    /\ DatedRows # {}
    /\ read_log = <<RowRead(NAME_ROW), RowRead(HEADER_ROW)>>

\* every cell of every bulk write of this run is in the ledger
WritesStored ==
    \A w \in 1..Len(write_log) :
       /\ write_log[w].ok
       /\ \A k \in 1..Len(write_log[w].cells) :
             LET c == write_log[w].cells[k]
             IN  sheet[c.row][c.col] = CellText(c.value)

\* C13: a run dispatches at most once, after its base write and its delta
\* write (when it has a delta to write) are stored; whether the dispatch is
\* skipped for want of a webhook, answered 200 or not, or raises, the run
\* ends normally and the ledger is as it was before the dispatch.
C13_DispatchOnceAfterWrites ==
    /\ [](Len(slack) <= 1)
    /\ [](slack # <<>> =>
             /\ pc = "done"
             /\ slack[1].outcome \in {"no_webhook", "ok", "not_200", "exception"}
             /\ Len(BaseWrites) = 1 /\ write_log[1].kind = "base"
             /\ Len(DeltaWrites) = (IF delta_updates = <<>> THEN 0 ELSE 1)
             /\ WritesStored)
    /\ [][slack' # slack /\ slack' # <<>> =>
             /\ pc = "report" /\ pc' = "done"
             /\ WritesStored
             /\ sheet' = sheet /\ write_log' = write_log]_vars

\* a run whose POST raised, done with both writes stored
C13_Witness ==
    /\ pc = "done" /\ Len(slack) = 1 /\ slack[1].outcome = "exception"
    /\ Len(write_log) = 2 /\ WritesStored

\* C14: a bulk write that fails is the last thing its run does: the run is
\* aborted, nothing is dispatched, and no write is attempted again; after a
\* failed base write there is no delta write. A run attempts at most one
\* base write and at most one delta write.
C14_FailedWriteAborts ==
    /\ [](\A w \in 1..Len(write_log) : ~write_log[w].ok =>
             /\ w = Len(write_log)
             /\ pc = "failed" /\ slack = <<>>)
    /\ [](Len(BaseWrites) <= 1 /\ Len(DeltaWrites) <= 1)
    /\ [](write_log # <<>> /\ ~write_log[1].ok =>
             Len(write_log) = 1 /\ DeltaWrites = <<>> /\ delta_updates = <<>>)
    /\ [][pc = "failed" => runs' = runs + 1]_vars

\* a run aborted by its failed delta write, after its stored base write
C14_Witness ==
    /\ pc = "failed" /\ Len(write_log) = 2
    /\ write_log[1].ok /\ write_log[2].kind = "delta" /\ ~write_log[2].ok
    /\ slack = <<>>

\* C15: a run without a previous row does not enter the delta and alert
\* phase: it reads no previous row, attempts the base write and no other,
\* builds no ranking, writes into the first observation row the date cell and
\* value cells only, and dispatches nothing. A delta write goes to a row
\* below the first observation row.
C15_FirstObservationBaseOnly ==
    /\ [](pc # "idle" /\ targets # <<>> /\ IsNone(prev_row) =>
             /\ target_row = DATA_START_ROW
             /\ read_log = <<RowRead(NAME_ROW), RowRead(HEADER_ROW), ColRead(DATE_COL)>>
             /\ prev_row_vals = <<None>>
             /\ pc \in {"collect", "done", "failed"}
             /\ DeltaWrites = <<>> /\ delta_updates = <<>>
             /\ deltas = <<>> /\ rates = <<>> /\ delta_change_hits = <<>>
             /\ slack = <<>>
             /\ pc = "done" =>
                  write_log = <<[kind |-> "base", cells |-> base_updates, ok |-> TRUE]>>)
    /\ [][IsNone(prev_row') /\ sheet' # sheet =>
             \A r \in Rows : \A c \in Cols :
                sheet'[r][c] # sheet[r][c] =>
                   r = DATA_START_ROW /\ c \in {DATE_COL} \cup TargetCols]_vars
    /\ [](\A w \in 1..Len(write_log) : write_log[w].kind = "delta" =>
             /\ ~IsNone(prev_row) /\ target_row > DATA_START_ROW
             /\ \A k \in 1..Len(write_log[w].cells) :
                   write_log[w].cells[k].row > DATA_START_ROW)

\* the first observation of two entities, both fetched: one write, no report
C15_Witness ==
    /\ pc = "done" /\ IsNone(prev_row) /\ target_row = DATA_START_ROW
    /\ Len(targets) = 2 /\ Cardinality(Succeeded) = 2
    /\ Len(write_log) = 1 /\ Len(write_log[1].cells) = 3 /\ write_log[1].ok
    /\ slack = <<>>

----------------------------------------------------------------------------
(* The cursor on a date column with a gap.                                 *)

\* an observation row without a date above a row with one
Gapped ==
    \E g \in Rows : g >= DATA_START_ROW /\ ~DateFilled(g) /\ g < LastDatedRow

FirstGap ==
    CHOOSE g \in Rows :
       /\ g >= DATA_START_ROW /\ ~DateFilled(g)
       /\ \A q \in DATA_START_ROW..(g - 1) : DateFilled(q)

\* C16 as stated: on a date column with a gap g below which a row is filled,
\* the cursor is the first gap: next = g, previous = g - 1, none when g = 3.
C16_EndsAtFirstGap ==
    pc = "cursor" /\ Gapped =>
       /\ target_row = FirstGap
       /\ prev_row = IF FirstGap = DATA_START_ROW THEN None ELSE Some(FirstGap - 1)

\* C16, amended: on a date column with a gap g below which a row is filled,
\* the cursor takes the ledger to end at the last filled cell of the column,
\* not at the gap: with m > g the last filled row, next = m + 1 and
\* previous = m.
C16_EndsAfterLastFilled ==
    pc = "cursor" /\ Gapped =>
       /\ target_row = LastDatedRow + 1
       /\ prev_row = Some(LastDatedRow)
       /\ FirstGap < LastDatedRow /\ ~DateFilled(FirstGap)
       /\ target_row > FirstGap

\* rows 3 and 5 dated, row 4 not: the cursor is (6, 5)
C16_Witness ==
    /\ pc = "cursor" /\ Gapped
    /\ FirstGap = DATA_START_ROW + 1 /\ LastDatedRow = DATA_START_ROW + 2
    /\ target_row = DATA_START_ROW + 3 /\ prev_row = Some(DATA_START_ROW + 2)

----------------------------------------------------------------------------
(* Termination of the retrying fetcher.                                    *)

\* MAX_RETRY_TIME / RETRY_DELAY rounded up, plus one
AttemptBudget == (MAX_RETRY_TIME + RETRY_DELAY - 1) \div RETRY_DELAY + 1

\* C17: a call of get_friend_count_with_retry whose fetches all return ends,
\* with a value or with the timeout error; no count limits the attempts, yet
\* a source that never yields a value leads to the timeout error within
\* ceil(MAX_RETRY_TIME / RETRY_DELAY) + 1 attempts.
C17_RetryTerminates ==
    /\ [](rpc \in {"idle", "Fetching", "Succeeded", "TimedOut"})
    /\ [](attempt <= AttemptBudget)
    /\ [](rpc = "TimedOut" => IsNone(cnt) /\ Val(elapsed) >= MAX_RETRY_TIME)
    /\ [](rpc = "Fetching" /\ attempt > 0 => Val(elapsed) < MAX_RETRY_TIME)
    /\ (rpc = "Fetching") ~> (rpc \in {"Succeeded", "TimedOut"})

\* a call timed out on its 61st attempt, every fetch of it an instant miss
C17_Witness ==
    /\ rpc = "TimedOut" /\ attempt = AttemptBudget /\ attempt = 61
    /\ elapsed = Some(MAX_RETRY_TIME)

----------------------------------------------------------------------------
(* Pacing of the collection loop.                                          *)

\* the fetches made so far ended with a count or with the timeout error
NoFetchRaised ==
    \A i \in Fetched : fetch_log[i].ended \in {"Succeeded", "TimedOut"}

\* C18: while the fetch of the k-th tracked entity of a run is under way,
\* the run has paused SLEEP_BETWEEN once after each of the k - 1 entities
\* before it, whether their fetches returned a count or failed for good with
\* the timeout error; the retry waits of a call add no pause to that count.
C18_PacedBetweenEntities ==
    pc = "collect" /\ rpc = "Fetching" /\ NoFetchRaised => paced = idx - 1

----------------------------------------------------------------------------
(* The rankings and the alert list.                                        *)

MinOf(a, b) == IF a < b THEN a ELSE b

Entries(list) == {list[k] : k \in 1..Len(list)}

\* list holds the entries of candidates, each once
Rearranged(list, candidates) ==
    Len(list) = Len(candidates) /\ Entries(list) = Entries(candidates)

\* top is the first min(TOP_N, Len(list)) entries of list
IsTopOf(top, list) == top = SubSeq(list, 1, MinOf(TOP_N, Len(list)))

RatioGeq(x, y) == x.num * y.den >= y.num * x.den

\* the ranking step of main
Ranked == pc = "report" /\ pc' = "done"

\* C19: the ranking turns the candidates of the delta loop into a delta
\* ranking in descending order of delta and a rate ranking in descending
\* order of rate, each holding every candidate once; the top lists are their
\* first min(TOP_N, number of candidates) entries, so no omitted candidate
\* has a greater key than an included one; the alert list keeps every
\* flagged entity, without truncation, every entry of infinite ratio before
\* every entry of finite ratio and the finite ones in descending order of
\* ratio.
C19_RankingsSortedAndTruncated ==
    [][Ranked =>
        /\ Rearranged(deltas', deltas)
        /\ \A i \in 1..Len(deltas') : \A j \in 1..Len(deltas') :
              i < j => deltas'[i].delta >= deltas'[j].delta
        /\ Rearranged(rates', rates)
        /\ \A i \in 1..Len(rates') : \A j \in 1..Len(rates') :
              i < j => RatioGeq(rates'[i].rate, rates'[j].rate)
        /\ IsTopOf(top_deltas', deltas')
        /\ Len(top_deltas') = MinOf(TOP_N, Len(deltas))
        /\ \A k \in (Len(top_deltas') + 1)..Len(deltas') : \A j \in 1..Len(top_deltas') :
              deltas'[k].delta <= top_deltas'[j].delta
        /\ IsTopOf(top_rates', rates')
        /\ Len(top_rates') = MinOf(TOP_N, Len(rates))
        /\ \A k \in (Len(top_rates') + 1)..Len(rates') : \A j \in 1..Len(top_rates') :
              RatioGeq(top_rates'[j].rate, rates'[k].rate)
        /\ Rearranged(delta_change_hits', delta_change_hits)
        /\ \A i \in 1..Len(delta_change_hits') : \A j \in 1..Len(delta_change_hits') :
              i < j =>
                 LET x == delta_change_hits'[i].ratio
                     y == delta_change_hits'[j].ratio
                 IN  /\ y.inf => x.inf
                     /\ ~x.inf /\ ~y.inf => RatioGeq(x, y)
        /\ slack'[Len(slack')].message =
              [top_deltas |-> top_deltas', top_rates |-> top_rates',
               alerts |-> delta_change_hits']]_vars

\* six candidates ranked and the least of them left out of the top five;
\* six alerts kept, an infinite ratio first and a finite one last
C19_Witness ==
    /\ pc = "done"
    /\ Len(deltas) = TOP_N + 1 /\ Len(top_deltas) = TOP_N
    /\ deltas[TOP_N + 1].delta < deltas[TOP_N].delta
    /\ deltas[1].delta > deltas[TOP_N].delta
    /\ Len(rates) >= 2
    /\ rates[1].rate.num * rates[Len(rates)].rate.den
          > rates[Len(rates)].rate.num * rates[1].rate.den
    /\ Len(delta_change_hits) = TOP_N + 1
    /\ delta_change_hits[1].ratio.inf /\ ~delta_change_hits[TOP_N + 1].ratio.inf
    /\ ~delta_change_hits[TOP_N].ratio.inf
    /\ delta_change_hits[TOP_N].ratio.num * delta_change_hits[TOP_N + 1].ratio.den
          > delta_change_hits[TOP_N + 1].ratio.num * delta_change_hits[TOP_N].ratio.den

----------------------------------------------------------------------------
(* The columns of the ledger.                                              *)

\* no two cells of the list share their coordinates
DistinctCells(cells) ==
    \A i \in 1..Len(cells) : \A j \in 1..Len(cells) :
       i # j => <<cells[i].row, cells[i].col>> # <<cells[j].row, cells[j].col>>

\* C20: the value column C of every tracked entity is even and >= 2, and
\* its delta column C + 1 odd and >= 3; so no delta cell is in the date
\* column or in the value column of a tracked entity, and no two cells of a
\* bulk write share their coordinates.
C20_ColumnsDoNotCollide ==
    /\ \A c \in TargetCols :
          /\ c % 2 = 0 /\ c >= 2
          /\ (c + 1) % 2 = 1 /\ c + 1 >= 3
    /\ \A k \in 1..Len(delta_updates) :
          /\ delta_updates[k].col - 1 \in TargetCols
          /\ delta_updates[k].col % 2 = 1 /\ delta_updates[k].col >= 3
          /\ delta_updates[k].col # DATE_COL
          /\ delta_updates[k].col \notin TargetCols
    /\ \A k \in 2..Len(base_updates) : base_updates[k].col \in TargetCols
    /\ DistinctCells(base_updates) /\ DistinctCells(delta_updates)
    /\ \A w \in 1..Len(write_log) :
          /\ DistinctCells(write_log[w].cells)
          /\ write_log[w].kind = "delta" =>
                \A k \in 1..Len(write_log[w].cells) :
                   write_log[w].cells[k].col \notin {DATE_COL} \cup TargetCols

\* a run over the value columns 2 and 4 wrote three base cells, then the
\* delta cells of columns 3 and 5
C20_Witness ==
    /\ pc = "done" /\ TargetCols = {2, 4}
    /\ Len(write_log) = 2
    /\ {write_log[1].cells[k].col : k \in 1..Len(write_log[1].cells)} = {1, 2, 4}
    /\ {write_log[2].cells[k].col : k \in 1..Len(write_log[2].cells)} = {3, 5}
    /\ write_log[2].ok

====
